---- MODULE Spec2Model ----
(***************************************************************************)
(* NIAP product scraper: scripts/run_niap.py (grid scraper: header         *)
(* resolution, row extraction, dedup, pagination) and                      *)
(* cc_scraper/niap_scraper.py (card scraper).                              *)
(*                                                                         *)
(* A Python str is a sequence of one-character strings, so that norm,      *)
(* lower, strip and the regular expression of the pager are computed and   *)
(* not assumed.  None is a value distinct from every str.                  *)
(***************************************************************************)
EXTENDS Integers, Sequences, FiniteSets, TLC

\* ------------------------------------------------------------------------
\* Python str helpers
\* ------------------------------------------------------------------------

\* Python None: no str contains an element that is not one character long.
None == <<"None">>

UpperChars == <<"A","B","C","D","E","F","G","H","I","J","K","L","M",
                "N","O","P","Q","R","S","T","U","V","W","X","Y","Z">>

LowerChars == <<"a","b","c","d","e","f","g","h","i","j","k","l","m",
                "n","o","p","q","r","s","t","u","v","w","x","y","z">>

DigitChars == <<"0","1","2","3","4","5","6","7","8","9">>

Range(f) == {f[i] : i \in DOMAIN f}

\* str.isspace for one character (what str.split() and str.strip() drop)
IsSpace(c) == c \in {" ", "\t", "\n", "\r"}

IsDigit(c) == c \in Range(DigitChars)

\* \w of the re module
IsWord(c) == c \in Range(UpperChars) \cup Range(LowerChars) \cup Range(DigitChars) \cup {"_"}

lower_char(c) ==
  IF c \in Range(UpperChars)
    THEN LowerChars[CHOOSE i \in DOMAIN UpperChars : UpperChars[i] = c]
    ELSE c

\* str.lower()
lower(s) == [i \in 1..Len(s) |-> lower_char(s[i])]

\* str.strip()
strip(s) ==
  LET keep == {i \in 1..Len(s) : ~IsSpace(s[i])}
  IN IF keep = {} THEN <<>>
     ELSE LET lo == CHOOSE i \in keep : \A j \in keep : i <= j
              hi == CHOOSE i \in keep : \A j \in keep : j <= i
          IN SubSeq(s, lo, hi)

RECURSIVE split_from(_, _, _, _)
split_from(s, i, cur, acc) ==
  IF i > Len(s)
    THEN IF cur = <<>> THEN acc ELSE Append(acc, cur)
    ELSE IF IsSpace(s[i])
      THEN split_from(s, i + 1, <<>>, IF cur = <<>> THEN acc ELSE Append(acc, cur))
      ELSE split_from(s, i + 1, Append(cur, s[i]), acc)

\* str.split() without arguments
split(s) == split_from(s, 1, <<>>, <<>>)

RECURSIVE join(_, _)
\* sep.join(parts)
join(sep, parts) ==
  IF parts = <<>> THEN <<>>
  ELSE IF Len(parts) = 1 THEN parts[1]
  ELSE parts[1] \o sep \o join(sep, Tail(parts))

\* s or ""
or_empty(s) == IF s = None THEN <<>> ELSE s

\* norm(s) == " ".join((s or "").split()).strip()
norm(s) == strip(join(<<" ">>, split(or_empty(s))))

\* squash_ws(text) == re.sub(r"\s+", " ", text or "").strip()
RECURSIVE sub_ws(_, _, _)
sub_ws(s, i, acc) ==
  IF i > Len(s) THEN acc
  ELSE IF IsSpace(s[i])
    THEN IF i > 1 /\ IsSpace(s[i - 1])
           THEN sub_ws(s, i + 1, acc)
           ELSE sub_ws(s, i + 1, Append(acc, " "))
    ELSE sub_ws(s, i + 1, Append(acc, s[i]))

squash_ws(text) == strip(sub_ws(or_empty(text), 1, <<>>))

\* a in s for two strs
contains(s, a) ==
  \E i \in 1..(Len(s) - Len(a) + 1) : SubSeq(s, i, i + Len(a) - 1) = a

RECURSIVE to_int(_)
\* int(digits)
to_int(d) ==
  IF d = <<>> THEN 0
  ELSE 10 * to_int(SubSeq(d, 1, Len(d) - 1))
       + ((CHOOSE i \in DOMAIN DigitChars : DigitChars[i] = d[Len(d)]) - 1)

\* dict.get(k, default)
get(d, k, default) == IF k \in DOMAIN d THEN d[k] ELSE default

\* d.setdefault(k, v): the first value stays
put_first(d, k, v) == [x \in DOMAIN d \cup {k} |-> IF x \in DOMAIN d THEN d[x] ELSE v]

\* d[k] = v
put(d, k, v) == [x \in DOMAIN d \cup {k} |-> IF x = k THEN v ELSE d[x]]

EmptyDict == [x \in {} |-> <<>>]

\* ------------------------------------------------------------------------
\* Canonical fields and alias tables
\* ------------------------------------------------------------------------
F_VID == <<"V","I","D">>
F_Vendor == <<"V","e","n","d","o","r">>
F_Product == <<"P","r","o","d","u","c","t">>
F_CCTL == <<"C","C","T","L">>
F_Certification_Date == <<"C","e","r","t","i","f","i","c","a","t","i","o","n"," ","D","a","t","e">>
F_Status == <<"S","t","a","t","u","s">>
F_Conformance_Claims == <<"C","o","n","f","o","r","m","a","n","c","e"," ","C","l","a","i","m","s">>
F_Assurance_Maintenance_Date == <<"A","s","s","u","r","a","n","c","e"," ","M","a","i","n","t","e","n","a","n","c","e"," ","D","a","t","e">>
F_Maintenance_Update == <<"M","a","i","n","t","e","n","a","n","c","e"," ","U","p","d","a","t","e">>
F_Scheme == <<"S","c","h","e","m","e">>

\* scripts/run_niap.py
REQUIRED_HEADERS ==
  <<F_VID, F_Vendor, F_Product, F_CCTL, F_Certification_Date, F_Status,
    F_Conformance_Claims, F_Assurance_Maintenance_Date, F_Maintenance_Update,
    F_Scheme>>

\* scripts/run_niap.py: lower-case header text -> canonical field
ALIASES ==
  { << <<"v","i","d">>, F_VID >>,
    << <<"v","e","n","d","o","r">>, F_Vendor >>,
    << <<"p","r","o","d","u","c","t">>, F_Product >>,
    << <<"c","c","t","l">>, F_CCTL >>,
    << <<"c","e","r","t","i","f","i","c","a","t","i","o","n"," ","d","a","t","e">>, F_Certification_Date >>,
    << <<"s","t","a","t","u","s">>, F_Status >>,
    << <<"c","o","n","f","o","r","m","a","n","c","e"," ","c","l","a","i","m","s">>, F_Conformance_Claims >>,
    << <<"a","s","s","u","r","a","n","c","e"," ","m","a","i","n","t","e","n","a","n","c","e"," ","d","a","t","e">>, F_Assurance_Maintenance_Date >>,
    << <<"m","a","i","n","t","e","n","a","n","c","e"," ","u","p","d","a","t","e">>, F_Maintenance_Update >>,
    << <<"s","c","h","e","m","e">>, F_Scheme >> }

\* ALIASES.get(h, h): the header text itself when it is no alias
to_canonical_or_raw(header) ==
  LET h == lower(norm(header))
  IN IF \E a \in ALIASES : a[1] = h
       THEN (CHOOSE a \in ALIASES : a[1] = h)[2]
       ELSE h

\* to_canonical(header): ALIASES.get(norm(header).lower())
to_canonical(header) ==
  LET h == lower(norm(header))
  IN IF \E a \in ALIASES : a[1] = h
       THEN (CHOOSE a \in ALIASES : a[1] = h)[2]
       ELSE None

\* cc_scraper/niap_scraper.py
CANON_FIELDS == REQUIRED_HEADERS

\* cc_scraper/utils.py: canonical field, accepted header texts (in order)
FIELD_ALIASES ==
  <<
     <<F_VID,
        <<<<"V","I","D">>,
          <<"V","a","l","i","d","a","t","i","o","n"," ","I","D">>,
          <<"V","P","L"," ","I","D">>,
          <<"V","a","l","i","d","a","t","i","o","n"," ","I","d","e","n","t","i","f","i","e","r">>>> >>,
     <<F_Vendor,
        <<<<"V","e","n","d","o","r">>,
          <<"M","a","n","u","f","a","c","t","u","r","e","r">>>> >>,
     <<F_Product,
        <<<<"P","r","o","d","u","c","t">>,
          <<"P","r","o","d","u","c","t"," ","N","a","m","e">>,
          <<"T","O","E">>>> >>,
     <<F_CCTL,
        <<<<"C","C","T","L">>,
          <<"C","C"," ","T","e","s","t","i","n","g"," ","L","a","b">>,
          <<"L","a","b">>,
          <<"T","e","s","t","i","n","g"," ","L","a","b","o","r","a","t","o","r","y">>>> >>,
     <<F_Certification_Date,
        <<<<"C","e","r","t","i","f","i","c","a","t","i","o","n"," ","D","a","t","e">>,
          <<"C","h","e","c","k","-","i","n"," ","D","a","t","e">>,
          <<"V","a","l","i","d","a","t","i","o","n"," ","D","a","t","e">>,
          <<"D","a","t","e">>>> >>,
     <<F_Status,
        <<<<"S","t","a","t","u","s">>,
          <<"S","t","a","t","e">>>> >>,
     <<F_Conformance_Claims,
        <<<<"C","o","n","f","o","r","m","a","n","c","e"," ","C","l","a","i","m","s">>,
          <<"P","P">>,
          <<"P","r","o","t","e","c","t","i","o","n"," ","P","r","o","f","i","l","e">>,
          <<"C","o","n","f","o","r","m","a","n","c","e">>>> >>,
     <<F_Assurance_Maintenance_Date,
        <<<<"A","s","s","u","r","a","n","c","e"," ","M","a","i","n","t","e","n","a","n","c","e"," ","D","a","t","e">>,
          <<"A","M","D">>,
          <<"M","a","i","n","t","e","n","a","n","c","e"," ","D","a","t","e">>>> >>,
     <<F_Maintenance_Update,
        <<<<"M","a","i","n","t","e","n","a","n","c","e"," ","U","p","d","a","t","e">>,
          <<"M","a","i","n","t","e","n","a","n","c","e">>,
          <<"A","s","s","u","r","a","n","c","e"," ","M","a","i","n","t","e","n","a","n","c","e">>>> >>,
     <<F_Scheme,
        <<<<"S","c","h","e","m","e">>,
          <<"C","o","u","n","t","r","y">>>> >>
  >>

\* normalize_label(label): the first canonical field one of whose aliases
\* equals the stripped label case-insensitively, else the stripped label
normalize_label(label) ==
  LET l == strip(or_empty(label))
      hits == {i \in DOMAIN FIELD_ALIASES :
                 \E j \in DOMAIN FIELD_ALIASES[i][2] :
                    lower(FIELD_ALIASES[i][2][j]) = lower(l)}
  IN IF hits = {} THEN l
     ELSE FIELD_ALIASES[CHOOSE i \in hits : \A k \in hits : i <= k][1]

\* ------------------------------------------------------------------------
\* scripts/run_niap.py: helpers over the page
\*
\* page  == [grid          : BOOLEAN  (one of the grid selectors matches),
\*           columnheaders : Seq(str) (texts of the role=columnheader cells),
\*           ths           : Seq(str) (texts of "thead tr th" under the grid),
\*           captions      : Seq(Seq(str)) (per pager selector, the texts)]
\* dom   == [role_rows  : Seq(row)  (div[role=row] without a columnheader),
\*           tbody_rows : Seq(row)  ("tbody tr" under the grid)]
\* dom.grid == what _find_grid matches while these rows are rendered
\* row   == [gridcells : Seq(cell), tds : Seq(cell)]
\* cell  == [text : str, raises : BOOLEAN (inner_text() raises),
\*           link : BOOLEAN (the cell holds an <a>), href : str or None]
\* ------------------------------------------------------------------------

\* the locators _find_grid returns: the first match of div[role='grid'] (or
\* of a MuiDataGrid class), and the first match of table
GridHandle == <<"Locator(grid)">>
TableHandle == <<"Locator(table)">>

\* _find_grid(page): the first match of the selectors, or None; shown is the
\* document at the time of the call
find_grid(shown) == shown.grid

\* `found`, dropping the grid held so far
or_else_forget(found, old) == found

\* found or old
or_else(found, old) == IF found # None THEN found ELSE old

\* the cells _get_headers reads
header_cells(page) ==
  IF Len(page.columnheaders) = 0 THEN page.ths ELSE page.columnheaders

\* _get_headers(page, grid): column index (from 0) -> canonical field
get_headers(page) ==
  LET hc == header_cells(page)
      canon(i) == to_canonical(norm(hc[i + 1]))
  IN [i \in {k \in 0..(Len(hc) - 1) : canon(k) # None} |-> canon(i)]

RECURSIVE ws_run(_, _)
\* length of the run of whitespace of s that starts at position i
ws_run(s, i) == IF i <= Len(s) /\ IsSpace(s[i]) THEN 1 + ws_run(s, i + 1) ELSE 0

RECURSIVE digit_run(_, _)
\* length of the run of digits of s that starts at position i
digit_run(s, i) == IF i <= Len(s) /\ IsDigit(s[i]) THEN 1 + digit_run(s, i + 1) ELSE 0

\* r"\bof\s+(\d{1,7})\b" matches txt at position i
of_matches_at(txt, i) ==
  LET w == ws_run(txt, i + 2)
      d == digit_run(txt, i + 2 + w)
  IN /\ i + 1 <= Len(txt)
     /\ txt[i] = "o" /\ txt[i + 1] = "f"
     /\ (i = 1 \/ ~IsWord(txt[i - 1]))
     /\ w >= 1
     /\ d >= 1 /\ d <= 7
     /\ (i + 2 + w + d > Len(txt) \/ ~IsWord(txt[i + 2 + w + d]))

\* None where an Optional[int] is expected (no int of the program is negative)
NoneInt == -1

\* re.search(...) on one caption: int(m.group(1)) of the leftmost match, or None
search_total(txt) ==
  LET hits == {i \in 1..Len(txt) : of_matches_at(txt, i)}
  IN IF hits = {} THEN NoneInt
     ELSE LET i == CHOOSE h \in hits : \A k \in hits : h <= k
              w == ws_run(txt, i + 2)
              d == digit_run(txt, i + 2 + w)
          IN to_int(SubSeq(txt, i + 2 + w, i + 2 + w + d - 1))

RECURSIVE first_total(_, _, _)
\* the loops of _get_total_from_pager: selector s, element i < min(3, count)
first_total(captions, s, i) ==
  IF s > Len(captions) THEN NoneInt
  ELSE IF i > Len(captions[s]) \/ i > 3 THEN first_total(captions, s + 1, 1)
  ELSE LET m == search_total(strip(or_empty(captions[s][i])))
       IN IF m # NoneInt THEN m ELSE first_total(captions, s, i + 1)

\* _get_total_from_pager(page)
get_total_from_pager(page) == first_total(page.captions, 1, 1)

\* `x or 0` for an Optional[int]
or_zero(x) == IF x = NoneInt THEN 0 ELSE x

\* ------------------------------------------------------------------------
\* scripts/run_niap.py: the page-size control
\*
\* page.combos    == Seq([aria_label : str or None, aria_labelledby : str or
\*                        None, visible : BOOLEAN])
\* page.options   == the texts of the role=option elements of the opened list
\* page.menuitems == the texts of its role=menuitem elements
\* page.size_fault == the step of _set_page_size_to_max at which Playwright
\*                   raises on this site, "none" when no step does
\* ------------------------------------------------------------------------

\* the steps of _set_page_size_to_max that call into the page
SizeSteps == {"combobox", "open", "options", "click", "settle"}

\* the rows-per-page setting the site starts with, whatever its number is
DefaultSize == 0

RECURSIVE digits_of(_)
\* "".join(ch for ch in txt if ch.isdigit())
digits_of(txt) ==
  IF txt = <<>> THEN <<>>
  ELSE (IF IsDigit(Head(txt)) THEN <<Head(txt)>> ELSE <<>>) \o digits_of(Tail(txt))

\* (aria-label or "") + " " + (aria-labelledby or ""), lower-cased
combo_label(c) == lower(or_empty(c.aria_label) \o <<" ">> \o or_empty(c.aria_labelledby))

\* the index of the combobox the function targets, 0 when there is none: the
\* first one labelled "rows per page", else the first one
target_combo(combos) ==
  LET labelled == {i \in DOMAIN combos :
                     contains(combo_label(combos[i]),
                              <<"r","o","w","s"," ","p","e","r"," ","p","a","g","e">>)}
  IN IF labelled # {} THEN CHOOSE i \in labelled : \A j \in labelled : i <= j
     ELSE IF Len(combos) > 0 THEN 1
     ELSE 0

\* the options the function enumerates
size_options(pg) == IF Len(pg.options) = 0 THEN pg.menuitems ELSE pg.options

\* the number read from option i
option_num(opts, i) == to_int(digits_of(strip(or_empty(opts[i]))))

\* best_val of the loop over the options: the largest number, -1 without options
best_val(opts) ==
  IF Len(opts) = 0 THEN -1
  ELSE CHOOSE n \in {option_num(opts, i) : i \in DOMAIN opts} :
         \A i \in DOMAIN opts : option_num(opts, i) <= n

\* _set_page_size_to_max(page): [ret : what it returns, size : the page size
\* it leaves (DefaultSize when it selected nothing), raised : the step that
\* raised inside its try and was caught there, "none" when none did]
set_page_size_to_max(pg) ==
  LET f == pg.size_fault
      t == target_combo(pg.combos)
      opts == size_options(pg)
      bv == best_val(opts)
      out(ret_, size_, raised_) == [ret |-> ret_, size |-> size_, raised |-> raised_]
  IN IF f = "combobox" THEN out(FALSE, DefaultSize, "combobox")
     ELSE IF t = 0 \/ ~pg.combos[t].visible THEN out(FALSE, DefaultSize, "none")
     ELSE IF f = "open" THEN out(FALSE, DefaultSize, "open")
     ELSE IF f = "options" THEN out(FALSE, DefaultSize, "options")
     ELSE IF ~(bv > 0) THEN out(FALSE, DefaultSize, "none")
     ELSE IF f = "click" THEN out(FALSE, DefaultSize, "click")
     ELSE IF f = "settle" THEN out(FALSE, bv, "settle")
     ELSE out(TRUE, bv, "none")

\* ------------------------------------------------------------------------
\* scripts/run_niap.py: row extraction and dedup
\* ------------------------------------------------------------------------

\* Row(...): the dataclass, every field defaulting to ""
Row(values, product_url) ==
  [VID |-> get(values, F_VID, <<>>),
   Vendor |-> get(values, F_Vendor, <<>>),
   Product |-> get(values, F_Product, <<>>),
   CCTL |-> get(values, F_CCTL, <<>>),
   Certification_Date |-> get(values, F_Certification_Date, <<>>),
   Status |-> get(values, F_Status, <<>>),
   Conformance_Claims |-> get(values, F_Conformance_Claims, <<>>),
   Assurance_Maintenance_Date |-> get(values, F_Assurance_Maintenance_Date, <<>>),
   Maintenance_Update |-> get(values, F_Maintenance_Update, <<>>),
   Scheme |-> get(values, F_Scheme, <<>>),
   Product_URL |-> product_url]

\* Row.to_dict / Record.to_dict: the snake_case keys of the outputs
to_dict(r) ==
  [vid |-> r.VID, vendor |-> r.Vendor, product |-> r.Product, cctl |-> r.CCTL,
   certification_date |-> r.Certification_Date, status |-> r.Status,
   conformance_claims |-> r.Conformance_Claims,
   assurance_maintenance_date |-> r.Assurance_Maintenance_Date,
   maintenance_update |-> r.Maintenance_Update, scheme |-> r.Scheme,
   product_url |-> r.Product_URL]

\* the rows _extract_rows walks
data_rows(dom) == IF Len(dom.role_rows) = 0 THEN dom.tbody_rows ELSE dom.role_rows

\* the cells of one row
row_cells(row) == IF Len(row.gridcells) = 0 THEN row.tds ELSE row.gridcells

RECURSIVE read_cells(_, _, _, _)
\* the loop over c_i: acc == [values, product_url, raised]
read_cells(cells, index_to_name, c_i, acc) ==
  IF c_i >= Len(cells) THEN acc
  ELSE LET cell == cells[c_i + 1]
           key == get(index_to_name, c_i, None)
       IN IF cell.raises THEN [acc EXCEPT !.raised = TRUE]
          ELSE LET val == norm(cell.text)
                   url == IF key = F_Product /\ cell.link
                            THEN or_empty(cell.href)
                            ELSE acc.product_url
                   vals == IF key # None THEN put(acc.values, key, val) ELSE acc.values
               IN read_cells(cells, index_to_name, c_i + 1,
                             [values |-> vals, product_url |-> url, raised |-> FALSE])

\* the key without its URL level
dedup_key_no_url(values, product_url) ==
  LET key_norm == strip(lower(get(values, F_Product, <<>>)))
  IN IF key_norm # <<>> THEN key_norm
     ELSE LET all_text == join(<<" ","|"," ">>,
                               [i \in DOMAIN REQUIRED_HEADERS |->
                                  get(values, REQUIRED_HEADERS[i], <<>>)])
          IN <<"r","o","w",":",":">> \o lower(norm(all_text))

\* the dedupe key of one row
dedup_key(values, product_url) ==
  LET key_norm == strip(lower(get(values, F_Product, <<>>)))
  IN IF key_norm # <<>> THEN key_norm
     ELSE IF product_url # <<>>
       THEN <<"u","r","l",":",":">> \o lower(strip(product_url))
       ELSE LET all_text == join(<<" ","|"," ">>,
                                 [i \in DOMAIN REQUIRED_HEADERS |->
                                    get(values, REQUIRED_HEADERS[i], <<>>)])
            IN <<"r","o","w",":",":">> \o lower(norm(all_text))

RECURSIVE extract_from(_, _, _, _)
\* the loop over r_i: acc == [rows, seen, raised]; seen is updated in place
extract_from(rows_, index_to_name, r_i, acc) ==
  IF r_i >= Len(rows_) THEN acc
  ELSE LET cells == row_cells(rows_[r_i + 1])
       IN IF Len(cells) = 0 THEN extract_from(rows_, index_to_name, r_i + 1, acc)
          ELSE LET rd == read_cells(cells, index_to_name, 0,
                                    [values |-> EmptyDict, product_url |-> <<>>,
                                     raised |-> FALSE])
                   key_norm == dedup_key(rd.values, rd.product_url)
               IN IF rd.raised THEN [acc EXCEPT !.raised = TRUE]
                  ELSE IF key_norm \in acc.seen
                    THEN extract_from(rows_, index_to_name, r_i + 1, acc)
                    ELSE extract_from(rows_, index_to_name, r_i + 1,
                           [rows |-> Append(acc.rows, Row(rd.values, rd.product_url)),
                            seen |-> acc.seen \cup {key_norm},
                            raised |-> FALSE])

\* _extract_rows forgetting the keys it was given
extract_rows_forgetful(dom, index_to_name, seen) ==
  LET r == extract_from(data_rows(dom), index_to_name, 0,
                        [rows |-> <<>>, seen |-> {}, raised |-> FALSE])
  IN [rows |-> r.rows, seen |-> seen \cup r.seen, raised |-> r.raised]

\* _extract_rows appending its records without adding their keys to the set
extract_rows_unkeyed(dom, index_to_name, seen) ==
  LET r == extract_from(data_rows(dom), index_to_name, 0,
                        [rows |-> <<>>, seen |-> seen, raised |-> FALSE])
  IN [rows |-> r.rows, seen |-> seen, raised |-> r.raised]

\* _extract_rows with rows.insert(0, rec) for rows.append(rec)
extract_rows_newest_first(dom, index_to_name, seen) ==
  LET r == extract_from(data_rows(dom), index_to_name, 0,
                        [rows |-> <<>>, seen |-> seen, raised |-> FALSE])
  IN [rows |-> [i \in 1..Len(r.rows) |-> r.rows[Len(r.rows) + 1 - i]],
      seen |-> r.seen, raised |-> r.raised]

\* _extract_rows(page, grid, index_to_name, seen_products)
extract_rows(dom, index_to_name, seen) ==
  extract_from(data_rows(dom), index_to_name, 0,
               [rows |-> <<>>, seen |-> seen, raised |-> FALSE])

\* ------------------------------------------------------------------------
\* The pages the model draws from
\* ------------------------------------------------------------------------
Cell(text) == [text |-> text, raises |-> FALSE, link |-> FALSE, href |-> None]
LinkCell(text, href) == [text |-> text, raises |-> FALSE, link |-> TRUE, href |-> href]
DetachedCell == [text |-> <<>>, raises |-> TRUE, link |-> FALSE, href |-> None]
GridRow(cells) == [gridcells |-> cells, tds |-> <<>>]
TableRow(cells) == [gridcells |-> <<>>, tds |-> cells]

s_US == <<"U","S">>
s_DE == <<"D","E">>

\* a product with a link, and two rows with no product text that differ in
\* their links only
PageA ==
  [role_rows |->
     << GridRow(<< Cell(<<"1","0">>), LinkCell(<<"A","l","p","h","a">>, <<"/","p","/","a">>),
                   Cell(s_US), Cell(<<"C","A">>) >>),
        GridRow(<< Cell(<<"1","1">>), LinkCell(<<>>, <<"/","p","/","1">>),
                   Cell(s_US), Cell(s_US) >>),
        GridRow(<< Cell(<<"1","1">>), LinkCell(<<>>, <<"/","p","/","2">>),
                   Cell(s_US), Cell(s_US) >>) >>,
   tbody_rows |-> <<>>, grid |-> GridHandle]

\* two identical rows with neither product text nor link, a row without cells,
\* and the product of PageA re-rendered with other field values
PageB ==
  [role_rows |->
     << GridRow(<< Cell(<<"2","0">>), Cell(<<>>), Cell(s_DE), Cell(s_DE) >>),
        GridRow(<< Cell(<<"2","0">>), Cell(<<>>), Cell(s_DE), Cell(s_DE) >>),
        GridRow(<<>>),
        GridRow(<< Cell(<<"9","9">>), LinkCell(<<" ","A","L","P","H","A">>, <<"/","p","/","x">>),
                   Cell(<<"F","R">>), Cell(<<" "," ","F","R"," ">>) >>) >>,
   tbody_rows |-> <<>>, grid |-> GridHandle]

\* a plain <table>: no role=row, three <td> per row
PageT ==
  [role_rows |-> <<>>,
   tbody_rows |->
     << TableRow(<< Cell(<<"3","0">>), Cell(<<"B","e","t","a">>), Cell(<<"J","P">>) >>) >>,
   grid |-> TableHandle]

\* nothing rendered, the grid itself gone while the page re-renders
PageEmpty == [role_rows |-> <<>>, tbody_rows |-> <<>>, grid |-> None]

\* a row one of whose cells is detached while it is read
PageDetached ==
  [role_rows |->
     << GridRow(<< Cell(<<"4","0">>), Cell(<<"G","a","m","m","a">>), DetachedCell, Cell(s_US) >>) >>,
   tbody_rows |-> <<>>, grid |-> GridHandle]

Pages == {PageA, PageB, PageT, PageEmpty, PageDetached}

h_VID == <<"V","I","D">>
HeadersDup == << h_VID, <<" ","P","r","o","d","u","c","t"," ">>, <<"S","c","h","e","m","e">>,
                 <<"S","C","H","E","M","E">> >>
HeadersAliased == << h_VID, <<"V","e","n","d","o","r">>, <<"P","r","o","d","u","c","t"," ","N","a","m","e">>,
                     <<"C","C","T","L">>, <<"C","o","u","n","t","r","y">> >>
HeadersUnknown == << <<"V","I","D"," ","N","o">>, <<"N","a","m","e">> >>
HeadersNoVid == << <<"N","a","m","e">> >>

NoCaptions == << <<>>, <<>>, <<>>, <<>> >>
CaptionsOf2 == << <<>>, << <<"R","o","w","s"," ","p","e","r"," ","p","a","g","e",":">>,
                           <<"1","-","2"," ","o","f"," ","2">> >>, <<>>, <<>> >>

CaptionsOf1 == << << <<"1","-","1"," ","o","f"," ","1">> >>, <<>>, <<>>, <<>> >>

\* a combobox labelled for the page size, and the list it opens
RowsCombo == [aria_label |-> <<"R","o","w","s"," ","p","e","r"," ","p","a","g","e",":">>,
              aria_labelledby |-> None, visible |-> TRUE]
SizeOptions == << <<"1","0">>, <<" ","1","0","0"," ","r","o","w","s">>, <<"2","5">>, <<"A","l","l">> >>

\* a site without a page-size control on which no step raises
Site(grid, hdrs, caps) ==
  [grid |-> IF grid THEN GridHandle ELSE None, columnheaders |-> hdrs, ths |-> <<>>, captions |-> caps,
   combos |-> <<>>, options |-> <<>>, menuitems |-> <<>>, size_fault |-> "none"]

\* the site with the page-size control, step fault of _set_page_size_to_max
\* raising on it
WithPager(site, fault) ==
  [site EXCEPT !.combos = <<RowsCombo>>, !.options = SizeOptions, !.size_fault = fault]

Sites ==
  { Site(TRUE, HeadersDup, NoCaptions),
    WithPager(Site(TRUE, HeadersDup, CaptionsOf2), "none"),
    Site(FALSE, HeadersDup, NoCaptions),
    Site(TRUE, HeadersUnknown, NoCaptions),
    Site(TRUE, HeadersNoVid, NoCaptions) }
  \cup { WithPager(Site(TRUE, HeadersAliased, CaptionsOf2), "settle") }
  \cup { WithPager(Site(TRUE, HeadersDup, CaptionsOf1), f) : f \in SizeSteps }

\* ------------------------------------------------------------------------
\* cc_scraper/niap_scraper.py: card extraction
\*
\* card == [dts : Seq(str), dds : Seq(str)  (texts of the <dt> and <dd>),
\*          inner : str (inner_text()), inner_raises : BOOLEAN,
\*          link : BOOLEAN (a details link is there), href : str or None]
\* ------------------------------------------------------------------------

RECURSIVE splitlines_from(_, _, _, _)
splitlines_from(s, i, cur, acc) ==
  IF i > Len(s)
    THEN IF cur = <<>> THEN acc ELSE Append(acc, cur)
    ELSE IF s[i] = "\n"
      THEN splitlines_from(s, i + 1, <<>>, Append(acc, cur))
      ELSE splitlines_from(s, i + 1, Append(cur, s[i]), acc)

\* str.splitlines()
splitlines(s) == splitlines_from(s, 1, <<>>, <<>>)

\* position of the first ":" of line, 0 when there is none
first_colon(line) ==
  LET at == {i \in 1..Len(line) : line[i] = ":"}
  IN IF at = {} THEN 0 ELSE CHOOSE i \in at : \A j \in at : i <= j

RECURSIVE fields_from_dl(_, _, _, _)
\* strategy 1: data[label] = value for each <dt>/<dd> pair
fields_from_dl(dts, dds, i, data) ==
  IF i > Len(dts) THEN data
  ELSE fields_from_dl(dts, dds, i + 1,
         put(data, normalize_label(squash_ws(dts[i])), squash_ws(dds[i])))

RECURSIVE fields_from_lines(_, _, _)
\* strategy 2: data.setdefault(label, value) for each line holding a colon
fields_from_lines(lines, i, data) ==
  IF i > Len(lines) THEN data
  ELSE LET c == first_colon(lines[i])
           label == normalize_label(squash_ws(SubSeq(lines[i], 1, c - 1)))
           value == squash_ws(SubSeq(lines[i], c + 1, Len(lines[i])))
       IN IF c # 0 /\ label # <<>> /\ label \notin DOMAIN data
            THEN fields_from_lines(lines, i + 1, put(data, label, value))
            ELSE fields_from_lines(lines, i + 1, data)

\* _extract_fields_from_card(el)
extract_fields_from_card(el) ==
  IF Len(el.dts) > 0 /\ Len(el.dds) > 0 /\ Len(el.dts) = Len(el.dds)
    THEN fields_from_dl(el.dts, el.dds, 1, EmptyDict)
    ELSE fields_from_lines(splitlines(IF el.inner_raises THEN <<>> ELSE el.inner),
                           1, EmptyDict)

\* the aliases of canonical field f in FIELD_ALIASES
aliases_of(f) ==
  (CHOOSE e \in Range(FIELD_ALIASES) : e[1] = f)[2]

\* the value scrape_page finds for canonical field f: fields[f], else the value
\* under the first alias present, else None
field_value(fields, f) ==
  IF f \in DOMAIN fields THEN fields[f]
  ELSE LET al == aliases_of(f)
           hits == {j \in DOMAIN al : al[j] \in DOMAIN fields}
       IN IF hits = {} THEN None
          ELSE fields[al[CHOOSE j \in hits : \A k \in hits : j <= k]]

\* `if v: setattr(rec, key, v)` on a Record() whose fields default to None
set_if(v) == IF v # None /\ v # <<>> THEN v ELSE None

\* the Record scrape_page builds for one card
Record(el) ==
  LET fields == extract_fields_from_card(el)
  IN [VID |-> set_if(field_value(fields, F_VID)),
      Vendor |-> set_if(field_value(fields, F_Vendor)),
      Product |-> set_if(field_value(fields, F_Product)),
      CCTL |-> set_if(field_value(fields, F_CCTL)),
      Certification_Date |-> set_if(field_value(fields, F_Certification_Date)),
      Status |-> set_if(field_value(fields, F_Status)),
      Conformance_Claims |-> set_if(field_value(fields, F_Conformance_Claims)),
      Assurance_Maintenance_Date |-> set_if(field_value(fields, F_Assurance_Maintenance_Date)),
      Maintenance_Update |-> set_if(field_value(fields, F_Maintenance_Update)),
      Scheme |-> set_if(field_value(fields, F_Scheme)),
      Product_URL |-> IF el.link THEN el.href ELSE None]

\* scrape_page(page, results): results after the call; shown.found is FALSE
\* when no selector finds a card (cards is None)
scrape_page(shown, res) ==
  IF ~shown.found THEN res
  ELSE res \o [i \in DOMAIN shown.cards |-> Record(shown.cards[i])]

RECURSIVE to_str(_)
\* str(n) for n >= 0
to_str(n) ==
  IF n < 10 THEN <<DigitChars[n + 1]>>
  ELSE to_str(n \div 10) \o <<DigitChars[(n % 10) + 1]>>

\* page.url + "::" + str(len(results))
seen_key(url, res) == url \o <<":",":">> \o to_str(Len(res))

CardDl ==
  [dts |-> << <<"V","I","D">>, <<"P","r","o","d","u","c","t"," ","N","a","m","e">>,
              <<"C","o","u","n","t","r","y">> >>,
   dds |-> << <<"1","0">>, <<"A","l","p","h","a">>, <<"U","S">> >>,
   inner |-> <<>>, inner_raises |-> FALSE,
   link |-> TRUE, href |-> <<"/","p","r","o","d","u","c","t","s","/","1","0">>]

CardText ==
  [dts |-> <<>>, dds |-> <<>>,
   inner |-> <<"V","e","n","d","o","r",":"," ","A","c","m","e","\n",
               "S","t","a","t","u","s",":","\n","n","o","t","e">>,
   inner_raises |-> FALSE, link |-> FALSE, href |-> None]

CardBare ==
  [dts |-> <<>>, dds |-> <<>>, inner |-> <<>>, inner_raises |-> TRUE,
   link |-> TRUE, href |-> None]

\* what one page of the card site shows
CardPages ==
  { [found |-> FALSE, cards |-> <<>>],
    [found |-> TRUE, cards |-> <<>>],
    [found |-> TRUE, cards |-> <<CardDl>>],
    [found |-> TRUE, cards |-> <<CardDl, CardText>>],
    [found |-> TRUE, cards |-> <<CardBare>>] }

Url1 == <<"/","p","r","o","d","u","c","t","s">>
Url2 == <<"/","p","r","o","d","u","c","t","s","?","p","=","2">>
Urls == {Url1, Url2}

\* the card site shows no more than this many cards in one run
MaxResults == 3

\* ------------------------------------------------------------------------
\* State
\* ------------------------------------------------------------------------
VARIABLES
  pc,             \* position in run
  page,           \* the loaded site (headers, grid, pager captions)
  dom,            \* the rows rendered at the last collection pass
  grid,           \* run: grid
  header_map,     \* run: header_map
  total,          \* run: total
  all_rows,       \* run: all_rows
  seen_products,  \* run: seen_products
  next_btn,       \* run: next_btn (None or a locator)
  safety,         \* run: safety
  clicks,         \* number of next_btn.click() calls made
  collects,       \* number of collect_current() calls made
  left_by,        \* how the while loop was left
  error,          \* the exception that ended run, if any
  csv_file,       \* out_csv
  jsonl_file,     \* out_jsonl
  ret,            \* the value run returned
  page_size,      \* the rows-per-page setting of the site
  size_raised,    \* the step of _set_page_size_to_max that raised, if any
  clicked_on,     \* what the next-page control showed at the check before the last click
  cpc,            \* niap_scraper.run: position
  page_url,       \* niap_scraper.run: page.url
  results,        \* niap_scraper.run: results
  seen            \* niap_scraper.run: seen

\* the state of cc_scraper/niap_scraper.py
cvars == <<cpc, page_url, results, seen>>

\* the page-size step of scripts/run_niap.py
svars == <<page_size, size_raised>>

vars == <<pc, page, dom, grid, header_map, total, all_rows, seen_products, next_btn,
          safety, clicks, collects, left_by, error, csv_file, jsonl_file, ret, svars,
          clicked_on, cvars>>

\* the locator _pager_next_btn returns when a selector matches
NextHandle == <<"Locator(next)">>

\* what the next-page control shows when it is looked at
NextCtl == {"absent", "enabled", "disabled", "mui_disabled", "raises"}

\* the guard of the while loop counts to this
SafetyCap == 100

Unwritten == [written |-> FALSE, header |-> <<>>, rows |-> <<>>]

\* the state both entry points start from
Fresh ==
  /\ dom = PageEmpty
  /\ grid = None
  /\ header_map = EmptyDict
  /\ total = 0
  /\ all_rows = <<>>
  /\ seen_products = {}
  /\ next_btn = None
  /\ safety = 0
  /\ clicks = 0
  /\ collects = 0
  /\ left_by = "none"
  /\ error = "none"
  /\ csv_file = Unwritten
  /\ jsonl_file = Unwritten
  /\ ret = NoneInt
  /\ page_size = DefaultSize
  /\ size_raised = "none"
  /\ clicked_on = "none"
  /\ page_url = Url1
  /\ results = <<>>
  /\ seen = {}

\* python scripts/run_niap.py
Init ==
  /\ pc = "open"
  /\ cpc = "idle"
  /\ page \in Sites
  /\ Fresh

\* ------------------------------------------------------------------------
\* scripts/run_niap.py: run
\* ------------------------------------------------------------------------

\* the failure noted and swallowed, run going on to its outputs
RaiseSwallowed(what) ==
  /\ pc' = "write"
  /\ error' = what

\* an exception leaves run: nothing after the raise executes
Raise(what) ==
  /\ pc' = "aborted"
  /\ error' = what

\* get_by_role("columnheader", name="VID"): a header whose text contains
\* "vid", case-insensitively
has_vid_header(pg) ==
  \E i \in DOMAIN pg.columnheaders :
     contains(lower(norm(pg.columnheaders[i])), <<"v","i","d">>)

\* goto, wait for the VID column header (TimeoutError when it never shows);
\* the banner buttons are clicked best-effort and change nothing here
Open ==
  /\ pc = "open"
  /\ UNCHANGED <<cvars, svars, clicked_on>>
  /\ IF has_vid_header(page)
       THEN pc' = "find_grid" /\ error' = error
       ELSE Raise("TimeoutError")
  /\ UNCHANGED <<page, dom, grid, header_map, total, all_rows, seen_products, next_btn,
                 safety, clicks, collects, left_by, csv_file, jsonl_file, ret>>

\* grid = _find_grid(page); if not grid: raise RuntimeError
FindGrid ==
  /\ pc = "find_grid"
  /\ UNCHANGED <<cvars, svars, clicked_on>>
  /\ LET found == find_grid(page)
     IN /\ grid' = found
        /\ IF found = None
             THEN Raise("RuntimeError: grid")
             ELSE pc' = "get_headers" /\ error' = error
  /\ UNCHANGED <<page, dom, header_map, total, all_rows, seen_products, next_btn,
                 safety, clicks, collects, left_by, csv_file, jsonl_file, ret>>

\* header_map = _get_headers(page, grid); if not header_map: raise RuntimeError
GetHeaders ==
  /\ pc = "get_headers"
  /\ UNCHANGED <<cvars, svars, clicked_on>>
  /\ LET resolved == get_headers(page)
     IN /\ header_map' = resolved
        /\ IF DOMAIN resolved = {}
             THEN Raise("RuntimeError: headers")
             ELSE pc' = "set_page_size" /\ error' = error
  /\ UNCHANGED <<page, dom, grid, total, all_rows, seen_products, next_btn,
                 safety, clicks, collects, left_by, csv_file, jsonl_file, ret>>

\* try: _set_page_size_to_max(page) / except Exception: pass -- the value it
\* returns is dropped, and so is whatever it raised
SetPageSize ==
  /\ pc = "set_page_size"
  /\ UNCHANGED <<cvars, clicked_on>>
  /\ LET r == set_page_size_to_max(page)
     IN /\ page_size' = r.size
        /\ size_raised' = r.raised
  /\ pc' = "get_total"
  /\ UNCHANGED <<page, dom, grid, header_map, total, all_rows, seen_products, next_btn,
                 safety, clicks, collects, left_by, error, csv_file, jsonl_file, ret>>

\* total = _get_total_from_pager(page) or 0
GetTotal ==
  /\ pc = "get_total"
  /\ UNCHANGED <<cvars, svars, clicked_on>>
  /\ total' = or_zero(get_total_from_pager(page))
  /\ pc' = "collect_first"
  /\ UNCHANGED <<page, dom, grid, header_map, all_rows, seen_products, next_btn,
                 safety, clicks, collects, left_by, error, csv_file, jsonl_file, ret>>

\* collect_current() with `all_rows = batch` for `all_rows.extend(batch)`
collect_current_replacing(d, batch) ==
  /\ dom' = d
  /\ grid' = or_else(find_grid(d), grid)
  /\ collects' = collects + 1
  /\ seen_products' = batch.seen
  /\ all_rows' = (IF batch.raised THEN all_rows ELSE batch.rows)

\* collect_current() over the document d that the scroll leaves rendered,
\* batch being what _extract_rows gives: the grid is located again in d and the
\* old one kept when none is found; seen_products is updated in place, all_rows is
\* extended only when _extract_rows returns
collect_current(d, batch) ==
  /\ dom' = d
  /\ grid' = or_else(find_grid(d), grid)
  /\ collects' = collects + 1
  /\ seen_products' = batch.seen
  /\ all_rows' = (IF batch.raised THEN all_rows ELSE all_rows \o batch.rows)

\* _pager_next_btn(page): the control is there or not
pager_next_btn(shown) == IF shown THEN NextHandle ELSE None

\* the check that reads is_enabled() only and not the Mui-disabled class
is_disabled_no_class(btn, ctl) ==
  IF btn = None \/ ctl = "absent" THEN TRUE
  ELSE IF ctl = "raises" THEN TRUE
  ELSE ctl = "disabled"

\* _is_disabled(btn), the control showing ctl when it is asked
is_disabled(btn, ctl) ==
  IF btn = None \/ ctl = "absent" THEN TRUE
  ELSE IF ctl = "raises" THEN TRUE
  ELSE ctl # "enabled"

\* the guard tripping one turn early
over_cap_early(n) == n >= SafetyCap

\* the guard tripping one turn late
over_cap_late(n) == n > SafetyCap + 1

\* if safety > 100
over_cap(n) == n > SafetyCap

\* if total and len(seen_products) >= total
total_reached(t, keys) == t # 0 /\ Cardinality(keys) >= t

\* the first collect_current() and the first _pager_next_btn(page)
CollectFirst ==
  /\ pc = "collect_first"
  /\ UNCHANGED <<cvars, svars, clicked_on>>
  /\ \E d \in Pages, shown \in BOOLEAN :
       LET batch == extract_rows(d, header_map, seen_products)
       IN /\ collect_current(d, batch)
          /\ IF batch.raised
               THEN Raise("cell") /\ UNCHANGED next_btn
               ELSE /\ next_btn' = pager_next_btn(shown)
                    /\ pc' = "while_test"
                    /\ error' = error
  /\ UNCHANGED <<page, header_map, total, safety, clicks, left_by,
                 csv_file, jsonl_file, ret>>

\* the while condition, the safety guard and next_btn.click()
WhileTest ==
  /\ pc = "while_test"
  /\ UNCHANGED <<cvars, svars>>
  /\ \E ctl \in NextCtl :
       IF next_btn # None /\ ~is_disabled(next_btn, ctl)
         THEN /\ safety' = safety + 1
              /\ IF over_cap(safety + 1)
                   THEN /\ pc' = "final_collect"
                        /\ left_by' = "cap"
                        /\ UNCHANGED <<clicks, clicked_on>>
                   ELSE /\ pc' = "collect_loop"
                        /\ left_by' = left_by
                        /\ clicks' = clicks + 1
                        /\ clicked_on' = ctl
         ELSE /\ pc' = "final_collect"
              /\ left_by' = (IF next_btn = None THEN "missing" ELSE "disabled")
              /\ UNCHANGED <<safety, clicks, clicked_on>>
  /\ UNCHANGED <<page, dom, grid, header_map, total, all_rows, seen_products, next_btn,
                 collects, error, csv_file, jsonl_file, ret>>

\* after the click: settle, collect_current(), _pager_next_btn, the total test
CollectLoop ==
  /\ pc = "collect_loop"
  /\ UNCHANGED <<cvars, svars, clicked_on>>
  /\ \E d \in Pages, shown \in BOOLEAN :
       LET batch == extract_rows(d, header_map, seen_products)
       IN /\ collect_current(d, batch)
          /\ IF batch.raised
               THEN Raise("cell") /\ UNCHANGED <<next_btn, left_by>>
               ELSE /\ next_btn' = pager_next_btn(shown)
                    /\ error' = error
                    /\ IF total_reached(total, batch.seen)
                         THEN pc' = "final_collect" /\ left_by' = "total"
                         ELSE pc' = "while_test" /\ left_by' = left_by
  /\ UNCHANGED <<page, header_map, total, safety, clicks, csv_file, jsonl_file, ret>>

\* run without its extra collect_current(): the loop is followed by the writes
FinalCollectSkipped ==
  /\ pc = "final_collect"
  /\ pc' = "write"
  /\ UNCHANGED <<page, dom, grid, header_map, total, all_rows, seen_products, next_btn,
                 safety, clicks, collects, left_by, error, csv_file, jsonl_file, ret,
                 svars, clicked_on, cvars>>

\* the extra collect_current() after the loop
FinalCollect ==
  /\ pc = "final_collect"
  /\ UNCHANGED <<cvars, svars, clicked_on>>
  /\ \E d \in Pages :
       LET batch == extract_rows(d, header_map, seen_products)
       IN /\ collect_current(d, batch)
          /\ IF batch.raised
               THEN Raise("cell")
               ELSE pc' = "write" /\ error' = error
  /\ UNCHANGED <<page, header_map, total, next_btn, safety, clicks, left_by,
                 csv_file, jsonl_file, ret>>

\* list(Row().to_dict().keys())
fieldnames ==
  <<"vid", "vendor", "product", "cctl", "certification_date", "status",
    "conformance_claims", "assurance_maintenance_date", "maintenance_update",
    "scheme", "product_url">>

\* what csv.writer puts in a column: "" for None
csv_value(v) == IF v = None THEN <<>> ELSE v

\* DictWriter.writerow(d): the values in the order of fieldnames
csv_row(d) == [i \in DOMAIN fieldnames |-> csv_value(d[fieldnames[i]])]

\* the CSV file written from the records rs
write_csv(rs) ==
  [written |-> TRUE, header |-> fieldnames,
   rows |-> [i \in DOMAIN rs |-> csv_row(to_dict(rs[i]))]]

\* the JSONL loop stopping one record short
write_jsonl_but_last(rs) ==
  [written |-> TRUE, header |-> <<>>,
   rows |-> [i \in 1..(Len(rs) - 1) |-> to_dict(rs[i])]]

\* the JSONL file written from the records rs: one object per line, None as null
write_jsonl(rs) ==
  [written |-> TRUE, header |-> <<>>,
   rows |-> [i \in DOMAIN rs |-> to_dict(rs[i])]]

\* write CSV + JSONL, return len(all_rows)
WriteOutputs ==
  /\ pc = "write"
  /\ UNCHANGED <<cvars, svars, clicked_on>>
  /\ csv_file' = write_csv(all_rows)
  /\ jsonl_file' = write_jsonl(all_rows)
  /\ ret' = Len(all_rows)
  /\ pc' = "done"
  /\ UNCHANGED <<page, dom, grid, header_map, total, all_rows, seen_products, next_btn,
                 safety, clicks, collects, left_by, error>>

Next ==
  \/ Open
  \/ FindGrid
  \/ GetHeaders
  \/ SetPageSize
  \/ GetTotal
  \/ CollectFirst
  \/ WhileTest
  \/ CollectLoop
  \/ FinalCollect
  \/ WriteOutputs

Spec == Init /\ [][Next]_vars

\* the positions of run
Positions ==
  {"open", "find_grid", "get_headers", "set_page_size", "get_total", "collect_first",
   "while_test", "collect_loop", "final_collect", "write", "done", "aborted"}

\* run has returned or raised
Halted == pc \in {"done", "aborted"}

\* run moves on to another statement
Proceed == ~Halted /\ pc' \in Positions

\* run is one sequential thread and nothing it calls blocks for ever: until
\* it has returned or raised, its next statement is executed.  Every step of
\* Next moves pc, and Next has a step wherever run has not halted, so this
\* is weak fairness of Next.
FairSpec == Spec /\ WF_pc(Proceed)

\* ------------------------------------------------------------------------
\* scripts/run_niap.py: _extract_rows on its own, over rows drawn from a
\* small set of cell texts and links
\* ------------------------------------------------------------------------

\* a grid of two columns: VID and Product
KeyHeaders == << h_VID, <<"P","r","o","d","u","c","t">> >>

\* the Product texts of the rows: none, a product name, and two texts that
\* read like a key of the URL level and of the row level
KeyProducts ==
  { <<>>,
    <<"A","l","p","h","a">>,
    <<"u","r","l",":",":","/","p","/","1">>,
    <<"R","O","W",":",":","2","0"," ","|"," ","|"," ","|"," ","|"," ","|"," ","|",
      " ","|"," ","|"," ","|">> }

\* the rows: VID 20 and one of the Product texts, the rows with a link, and
\* the product of VID 20 rendered again under another VID and in capitals
KeyRows ==
  { GridRow(<< Cell(<<"2","0">>), Cell(t) >>) : t \in KeyProducts }
  \cup { GridRow(<< Cell(<<"2","0">>), LinkCell(t, <<"/","p","/","1">>) >>) :
           t \in {<<>>, <<"A","l","p","h","a">>} }
  \cup { GridRow(<< Cell(<<"2","1">>), Cell(<<" ","A","L","P","H","A"," ">>) >>) }

\* a document rendering the rows rs
KeyPage(rs) == [role_rows |-> rs, tbody_rows |-> <<>>, grid |-> GridHandle]

\* the grid located, the headers resolved, nothing extracted yet
KeyInit ==
  /\ pc = "extract"
  /\ cpc = "idle"
  /\ page = Site(TRUE, KeyHeaders, NoCaptions)
  /\ dom = PageEmpty
  /\ grid = GridHandle
  /\ header_map = get_headers(Site(TRUE, KeyHeaders, NoCaptions))
  /\ total = 0
  /\ all_rows = <<>>
  /\ seen_products = {}
  /\ next_btn = None
  /\ safety = 0
  /\ clicks = 0
  /\ collects = 0
  /\ left_by = "none"
  /\ error = "none"
  /\ csv_file = Unwritten
  /\ jsonl_file = Unwritten
  /\ ret = NoneInt
  /\ page_size = DefaultSize
  /\ size_raised = "none"
  /\ clicked_on = "none"
  /\ page_url = Url1
  /\ results = <<>>
  /\ seen = {}

\* batch = _extract_rows(page, grid, header_map, seen_products) over two
\* rendered rows, and all_rows.extend(batch)
ExtractPass ==
  /\ pc = "extract"
  /\ \E r1 \in KeyRows, r2 \in KeyRows :
       LET d == KeyPage(<<r1, r2>>)
           batch == extract_rows(d, header_map, seen_products)
       IN /\ dom' = d
          /\ seen_products' = batch.seen
          /\ all_rows' = all_rows \o batch.rows
  /\ UNCHANGED <<pc, page, grid, header_map, total, next_btn, safety, clicks, collects,
                 left_by, error, csv_file, jsonl_file, ret, svars, clicked_on, cvars>>

KeyNext == ExtractPass

KeySpec == KeyInit /\ [][KeyNext]_vars

\* ------------------------------------------------------------------------
\* cc_scraper/niap_scraper.py: run
\* ------------------------------------------------------------------------

\* python -m cc_scraper.niap_scraper
CardInit ==
  /\ pc = "idle"
  /\ cpc = "scrape_first"
  /\ page = Site(FALSE, <<>>, NoCaptions)
  /\ Fresh

\* the card site shows cards only while the run holds fewer than MaxResults
shows(shown, res) == Len(res) + Len(shown.cards) <= MaxResults

\* goto and the first scrape_page(page, results)
ScrapeFirst ==
  /\ cpc = "scrape_first"
  /\ \E cards \in CardPages :
       /\ shows(cards, results)
       /\ results' = scrape_page(cards, results)
  /\ cpc' = "loop"
  /\ UNCHANGED <<svars, clicked_on>>
  /\ UNCHANGED <<pc, page, dom, grid, header_map, total, all_rows, seen_products,
                 next_btn, safety, clicks, collects, left_by, error, csv_file,
                 jsonl_file, ret, page_url, seen>>

\* one turn of `while has_next`: found says whether one of the selectors
\* matches an enabled control
CardLoop ==
  /\ cpc = "loop"
  /\ \E found \in BOOLEAN :
       IF found /\ seen_key(page_url, results) \notin seen
         THEN /\ seen' = seen \cup {seen_key(page_url, results)}
              /\ \E url \in Urls, cards \in CardPages :
                   /\ shows(cards, results)
                   /\ page_url' = url
                   /\ results' = scrape_page(cards, results)
              /\ cpc' = "loop"
         ELSE /\ cpc' = "write"
              /\ UNCHANGED <<seen, page_url, results>>
  /\ UNCHANGED <<svars, clicked_on>>
  /\ UNCHANGED <<pc, page, dom, grid, header_map, total, all_rows, seen_products,
                 next_btn, safety, clicks, collects, left_by, error, csv_file,
                 jsonl_file, ret>>

\* write CSV + JSONL from results, return len(results)
CardWrite ==
  /\ cpc = "write"
  /\ csv_file' = write_csv(results)
  /\ jsonl_file' = write_jsonl(results)
  /\ ret' = Len(results)
  /\ cpc' = "done"
  /\ UNCHANGED <<svars, clicked_on>>
  /\ UNCHANGED <<pc, page, dom, grid, header_map, total, all_rows, seen_products,
                 next_btn, safety, clicks, collects, left_by, error,
                 page_url, results, seen>>

CardNext ==
  \/ ScrapeFirst
  \/ CardLoop
  \/ CardWrite

CardSpec == CardInit /\ [][CardNext]_vars

\* One turn of `while has_next` on a page that shows more cards than the
\* MaxResults records the model keeps: the control is there and enabled, the
\* key is new, the click is made and scrape_page appends at least one record.
\* Of the longer list the model keeps the first MaxResults records, and
\* Len(results) = MaxResults stands for the new count from here on.  Every
\* key in seen ends in a count smaller than the new one, and the count never
\* decreases, so none of them can equal a key built later: they are dropped,
\* which leaves every later `key in seen` test with the answer it has in the
\* program.
CardLoopOn ==
  /\ cpc = "loop"
  /\ seen_key(page_url, results) \notin seen
  /\ \E url \in Urls, cards \in CardPages :
       /\ cards.found
       /\ Len(cards.cards) >= 1
       /\ ~shows(cards, results)
       /\ page_url' = url
       /\ results' = SubSeq(scrape_page(cards, results), 1, MaxResults)
  /\ seen' = {}
  /\ cpc' = "loop"
  /\ UNCHANGED <<svars, clicked_on>>
  /\ UNCHANGED <<pc, page, dom, grid, header_map, total, all_rows, seen_products,
                 next_btn, safety, clicks, collects, left_by, error, csv_file,
                 jsonl_file, ret>>

CardFairNext ==
  \/ CardNext
  \/ CardLoopOn

\* run is one sequential thread: while it has not returned, its next
\* statement is executed, on a site that may show cards without end
CardFairSpec == CardInit /\ [][CardFairNext]_vars /\ WF_vars(CardFairNext)

\* ------------------------------------------------------------------------
\* Properties
\* ------------------------------------------------------------------------

\* run is past its while loop
PastLoop == pc \in {"final_collect", "write", "done"}

\* a collection pass has returned and nothing was raised
Collected == collects >= 1 /\ error = "none"

\* C1: when the loop is not left because the next-page control is missing or
\* disabled, nor by the total-count early exit, run has clicked the control
\* exactly SafetyCap (100) times when it leaves the loop, and it never clicks
\* more than that.
C1_CapIsExact ==
  /\ clicks <= SafetyCap
  /\ (PastLoop /\ left_by \notin {"missing", "disabled", "total"}) => clicks = SafetyCap

C1_Witness == pc = "done" /\ left_by = "cap" /\ clicks = SafetyCap

\* C2: once a total N was parsed from the pager and the DedupSet holds at
\* least N keys after a collection pass (the first one included), no further
\* next-page click is made.
C2_NoClickOnceTotalReached ==
  [][(collects >= 1 /\ total >= 1 /\ Cardinality(seen_products) >= total)
       => clicks' = clicks]_vars

\* C3: the pagination of run terminates and never clicks more than SafetyCap
\* (100) times: whatever the next-page control, the rendered rows and the
\* pager show, a run that started collecting reaches the end of run, unless a
\* cell read raised (C7).
C3_DriverTerminates ==
  /\ [](clicks <= SafetyCap)
  /\ (pc = "collect_first") ~> (pc = "done" \/ error = "cell")

C3_Witness == pc = "done" /\ left_by = "cap" /\ safety = SafetyCap + 1 /\ ret >= 1

\* C4: after a collection pass, a second pass over the same rendered rows with
\* the same DedupSet appends no record and leaves the DedupSet as it is.
C4_Idempotent ==
  Collected =>
    LET again == extract_rows(dom, header_map, seen_products)
    IN /\ again.rows = <<>>
       /\ again.seen = seen_products
       /\ Len(all_rows \o again.rows) = Len(all_rows)

C4_Witness ==
  /\ Collected
  /\ dom = PageA
  /\ Len(all_rows) >= 3
  /\ collects >= 2

\* what _extract_rows reads from the cells of rendered row number r
Rendered(r) ==
  read_cells(row_cells(data_rows(dom)[r]), header_map, 0,
             [values |-> EmptyDict, product_url |-> <<>>, raised |-> FALSE])

\* the rendered rows that have cells
RowsWithCells == {r \in DOMAIN data_rows(dom) : Len(row_cells(data_rows(dom)[r])) > 0}

\* the ten canonical field values of a record, in the order of REQUIRED_HEADERS
FieldsOf(rec) ==
  <<rec.VID, rec.Vendor, rec.Product, rec.CCTL, rec.Certification_Date, rec.Status,
    rec.Conformance_Claims, rec.Assurance_Maintenance_Date, rec.Maintenance_Update,
    rec.Scheme>>

\* the record has no product text and was kept under the link url
KeptByUrl(rec, url) ==
  /\ strip(lower(rec.Product)) = <<>>
  /\ rec.Product_URL # <<>>
  /\ lower(strip(rec.Product_URL)) = lower(strip(url))

\* the record has neither product text nor link and, case aside, the fields fs
KeptByRow(rec, fs) ==
  /\ strip(lower(rec.Product)) = <<>>
  /\ rec.Product_URL = <<>>
  /\ \A i \in DOMAIN fs : lower(FieldsOf(rec)[i]) = lower(fs[i])

\* C5: after a collection pass, two rendered rows without product text whose
\* links differ (case and surrounding blanks aside) are kept as two records,
\* and rendered rows with neither product text nor link and the same field
\* values are kept as exactly one record.
C5_DedupPriority ==
  Collected =>
    \A r1 \in RowsWithCells, r2 \in RowsWithCells :
      LET a == Rendered(r1)
          b == Rendered(r2)
          fa == FieldsOf(Row(a.values, a.product_url))
      IN (strip(lower(get(a.values, F_Product, <<>>))) = <<>>
          /\ strip(lower(get(b.values, F_Product, <<>>))) = <<>>) =>
           /\ (a.product_url # <<>> /\ b.product_url # <<>>
               /\ lower(strip(a.product_url)) # lower(strip(b.product_url))) =>
                \E i \in DOMAIN all_rows, j \in DOMAIN all_rows :
                   /\ i # j
                   /\ KeptByUrl(all_rows[i], a.product_url)
                   /\ KeptByUrl(all_rows[j], b.product_url)
           /\ (a.product_url = <<>> /\ b.product_url = <<>> /\ a.values = b.values) =>
                Cardinality({i \in DOMAIN all_rows : KeptByRow(all_rows[i], fa)}) = 1

C5_Witness ==
  /\ Collected
  /\ dom = PageB
  /\ \E i \in DOMAIN all_rows, j \in DOMAIN all_rows :
        /\ all_rows[i].Product = <<>> /\ all_rows[i].Product_URL = <<"/","p","/","1">>
        /\ all_rows[j].Product = <<>> /\ all_rows[j].Product_URL = <<"/","p","/","2">>
  /\ Cardinality({i \in DOMAIN all_rows :
                    all_rows[i].VID = <<"2","0">> /\ all_rows[i].Product_URL = <<>>}) = 1

\* C6: when the grid is not located, or no header resolves, run has raised
\* and neither output file has been written, nor a count returned.
C6_FatalBeforeOutput ==
  error \in {"RuntimeError: grid", "RuntimeError: headers"} =>
    /\ pc = "aborted"
    /\ ~csv_file.written
    /\ ~jsonl_file.written
    /\ ret = NoneInt

C6_Witness ==
  /\ pc = "aborted"
  /\ error = "RuntimeError: headers"
  /\ grid # None
  /\ ~csv_file.written /\ ~jsonl_file.written

\* C7: a cell read that raises during row extraction does not end the run.
C7_CellFailureRecoverable == ~(error = "cell" /\ pc = "aborted")

\* the canonical field of which header text h is an accepted variant
\* (cc_scraper/utils.py FIELD_ALIASES), None when it is a variant of none
AliasedField(h) ==
  IF normalize_label(norm(h)) \in Range(REQUIRED_HEADERS)
    THEN normalize_label(norm(h)) ELSE None

\* C8: once the headers are resolved, every header text that is an accepted
\* variant of a canonical field is mapped to that field at its column, and
\* the headers VID, Vendor, Product Name, CCTL, Country resolve to
\* {0: VID, 1: Vendor, 2: Product, 3: CCTL, 4: Scheme}.
C8_AliasesResolve ==
  pc \in {"set_page_size", "get_total", "collect_first", "while_test", "collect_loop",
          "final_collect", "write", "done"} =>
    /\ \A c \in 0..(Len(header_cells(page)) - 1) :
          AliasedField(header_cells(page)[c + 1]) # None =>
            /\ c \in DOMAIN header_map
            /\ header_map[c] = AliasedField(header_cells(page)[c + 1])
    /\ page.columnheaders = HeadersAliased =>
          header_map = (0 :> F_VID @@ 1 :> F_Vendor @@ 2 :> F_Product
                        @@ 3 :> F_CCTL @@ 4 :> F_Scheme)

\* the field of record rec that canonical field f is stored in
RowField(rec, f) ==
  CASE f = F_VID -> rec.VID
    [] f = F_Vendor -> rec.Vendor
    [] f = F_Product -> rec.Product
    [] f = F_CCTL -> rec.CCTL
    [] f = F_Certification_Date -> rec.Certification_Date
    [] f = F_Status -> rec.Status
    [] f = F_Conformance_Claims -> rec.Conformance_Claims
    [] f = F_Assurance_Maintenance_Date -> rec.Assurance_Maintenance_Date
    [] f = F_Maintenance_Update -> rec.Maintenance_Update
    [] f = F_Scheme -> rec.Scheme

\* column c is the highest column of cells that header_map maps to its field
HighestFor(c, cells) ==
  /\ c \in DOMAIN header_map
  /\ \A k \in (c + 1)..(Len(cells) - 1) :
        ~(k \in DOMAIN header_map /\ header_map[k] = header_map[c])

\* every mapped field of rec holds the normalized text of the highest cell
\* mapped to it
LastWins(rec, cells) ==
  /\ Len(cells) > 0
  /\ \A c \in 0..(Len(cells) - 1) :
        HighestFor(c, cells) => RowField(rec, header_map[c]) = norm(cells[c + 1].text)

\* C9: every record a collection pass appends is built from a rendered row
\* such that each field holds the normalized text of the highest-index cell
\* mapped to that field: of two columns that resolve to the same field, the
\* higher one is stored.
C9_HigherColumnWins ==
  [][(collects' = collects + 1 /\ error' = "none") =>
       \A k \in (Len(all_rows) + 1)..Len(all_rows') :
          \E r \in DOMAIN data_rows(dom') :
             LastWins(all_rows'[k], row_cells(data_rows(dom')[r]))]_vars

C9_Witness ==
  /\ Collected
  /\ 2 \in DOMAIN header_map /\ 3 \in DOMAIN header_map
  /\ header_map[2] = F_Scheme /\ header_map[3] = F_Scheme
  /\ dom = PageA
  /\ \E i \in DOMAIN all_rows :
        all_rows[i].Product = <<"A","l","p","h","a">> /\ all_rows[i].Scheme = <<"C","A">>

\* C10: every record in the outputs has the 11 fields, each a str and none
\* null.
C10_NoNullInOutputs ==
  /\ csv_file.written =>
       \A i \in DOMAIN csv_file.rows :
          /\ Len(csv_file.rows[i]) = Len(fieldnames)
          /\ \A k \in DOMAIN fieldnames : csv_file.rows[i][k] # None
  /\ jsonl_file.written =>
       \A i \in DOMAIN jsonl_file.rows :
          /\ DOMAIN jsonl_file.rows[i] = Range(fieldnames)
          /\ \A k \in DOMAIN fieldnames : jsonl_file.rows[i][fieldnames[k]] # None

\* C11: a next-page click is made only at the while test, right after a check
\* that found the control present and enabled (not disabled, not carrying the
\* disabled class, not raising); a while test that does not click leaves the
\* loop for the final collection, and a missing control is never clicked.
C11_ClickOnlyWhenEnabled ==
  [][/\ (clicks' # clicks) =>
          /\ pc = "while_test"
          /\ next_btn # None
          /\ clicks' = clicks + 1
          /\ clicked_on' = "enabled"
     /\ (pc = "while_test" /\ clicks' = clicks) => pc' = "final_collect"
     /\ (pc = "while_test" /\ next_btn = None) => clicks' = clicks]_vars

C11_Witness ==
  /\ pc = "final_collect"
  /\ left_by = "disabled"
  /\ next_btn # None
  /\ clicks >= 1
  /\ clicked_on = "enabled"

\* C12: with k clicks made, run has made k + 1 collection passes when it tests
\* the next-page control (one after every click, before the next one), k + 1
\* when it leaves the loop by any of its exits, and k + 2 when it writes and
\* returns: exactly one more pass after the loop.
C12_PassesAreClicksPlusTwo ==
  /\ pc = "while_test" => collects = clicks + 1
  /\ pc = "collect_loop" => collects = clicks
  /\ pc = "final_collect" =>
        collects = clicks + 1 /\ left_by \in {"missing", "disabled", "total", "cap"}
  /\ pc \in {"write", "done"} => collects = clicks + 2

C12_Witness ==
  /\ pc = "done"
  /\ left_by = "total"
  /\ clicks >= 2
  /\ collects = clicks + 2

\* C13: when a step of the page-size sequence has failed, the run has not
\* failed for it and the page size is the default one.
C13_PageSizeBestEffort ==
  size_raised # "none" =>
    /\ error \in {"none", "cell"}
    /\ page_size = DefaultSize

\* C14: when run has returned, both outputs are written from all_rows: record
\* i of the list is row i of the CSV and line i of the JSONL, the CSV header
\* and every JSONL object have the same 11 keys, each key has the same string
\* in both, and the returned integer is the number of rows of each.
C14_OutputsAgree ==
  pc = "done" =>
    /\ csv_file.written /\ jsonl_file.written
    /\ csv_file.header = fieldnames
    /\ Len(csv_file.rows) = Len(all_rows)
    /\ Len(jsonl_file.rows) = Len(all_rows)
    /\ ret = Len(csv_file.rows)
    /\ ret = Len(jsonl_file.rows)
    /\ \A i \in DOMAIN all_rows :
          /\ jsonl_file.rows[i] = to_dict(all_rows[i])
          /\ DOMAIN jsonl_file.rows[i] = Range(csv_file.header)
          /\ Len(csv_file.rows[i]) = Len(csv_file.header)
          /\ \A k \in DOMAIN csv_file.header :
                csv_file.rows[i][k] = jsonl_file.rows[i][csv_file.header[k]]

C14_Witness ==
  /\ pc = "done"
  /\ ret >= 3
  /\ \E i \in DOMAIN csv_file.rows : csv_file.rows[i][11] = <<"/","p","/","2">>
  /\ \E i \in DOMAIN jsonl_file.rows : jsonl_file.rows[i].product = <<"B","e","t","a">>

\* a is a prefix of b
IsPrefix(a, b) == Len(a) <= Len(b) /\ SubSeq(b, 1, Len(a)) = a

\* C16: no step of run removes a key from the DedupSet, and no step removes,
\* reorders or changes a record of the accumulated list: the list before a
\* step is a prefix of the list after it.
C16_OnlyGrow ==
  [][seen_products \subseteq seen_products' /\ IsPrefix(all_rows, all_rows')]_vars

C16_Witness ==
  /\ pc = "done"
  /\ clicks >= 2
  /\ Len(all_rows) >= 4
  /\ all_rows[1].Product = <<"B","e","t","a">>

\* the header text matches no key of ALIASES
NoAlias(h) == \A a \in ALIASES : a[1] # lower(norm(h))

\* the columns of cells that header_map maps to field f
ColumnsOf(f, cells) ==
  {c \in 0..(Len(cells) - 1) : c \in DOMAIN header_map /\ header_map[c] = f}

\* every field of rec is the normalized text of the highest mapped cell of
\* its field, and "" when no column of the row is mapped to the field
FromMappedOnly(rec, cells) ==
  /\ Len(cells) > 0
  /\ \A k \in DOMAIN REQUIRED_HEADERS :
        LET f == REQUIRED_HEADERS[k]
            cols == ColumnsOf(f, cells)
        IN RowField(rec, f) =
             IF cols = {} THEN <<>>
             ELSE norm(cells[(CHOOSE c \in cols : \A x \in cols : x <= c) + 1].text)

\* the headers are resolved
Resolved == pc \notin {"open", "find_grid", "get_headers", "aborted"} \/ error = "cell"

\* C17: once the headers are resolved, every value of the HeaderMap is one of
\* the ten canonical fields, a column whose header text matches no alias has
\* no entry, the header step raises only when no header at all matches, and
\* every record a collection pass appends takes its fields from the mapped
\* columns of a rendered row only.
C17_UnmatchedDropped ==
  [][/\ Resolved' =>
          /\ \A c \in DOMAIN header_map' : header_map'[c] \in Range(REQUIRED_HEADERS)
          /\ \A c \in 0..(Len(header_cells(page')) - 1) :
                NoAlias(header_cells(page')[c + 1]) => c \notin DOMAIN header_map'
     /\ error' = "RuntimeError: headers" =>
          \A c \in 0..(Len(header_cells(page')) - 1) : NoAlias(header_cells(page')[c + 1])
     /\ (collects' = collects + 1 /\ error' = "none") =>
          \A k \in (Len(all_rows) + 1)..Len(all_rows') :
             \E r \in DOMAIN data_rows(dom') :
                FromMappedOnly(all_rows'[k], row_cells(data_rows(dom')[r]))]_vars

C17_Witness ==
  /\ Collected
  /\ page.columnheaders = HeadersAliased
  /\ header_map = (0 :> F_VID @@ 1 :> F_Vendor @@ 3 :> F_CCTL)
  /\ dom = PageA
  /\ \E i \in DOMAIN all_rows :
        /\ all_rows[i].VID = <<"1","0">>
        /\ all_rows[i].Vendor = <<"A","l","p","h","a">>
        /\ all_rows[i].CCTL = <<"C","A">>
        /\ all_rows[i].Product = <<>>
        /\ all_rows[i].Scheme = <<>>

\* the dedupe key _extract_rows gave the row a record was built from
KeyOf(rec) ==
  dedup_key([f \in Range(REQUIRED_HEADERS) |-> RowField(rec, f)], rec.Product_URL)

\* C20: unless a cell read ended the run inside a pass (C7), the accumulated
\* list holds exactly one record for every key of the DedupSet -- as many
\* records as keys, no two records with the same key -- and the count run
\* returns is the number of keys.
C20_OneRecordPerKey ==
  error # "cell" =>
    /\ Len(all_rows) = Cardinality(seen_products)
    /\ {KeyOf(all_rows[i]) : i \in DOMAIN all_rows} = seen_products
    /\ \A i \in DOMAIN all_rows, j \in DOMAIN all_rows :
          i # j => KeyOf(all_rows[i]) # KeyOf(all_rows[j])
    /\ pc = "done" => ret = Cardinality(seen_products)

C20_Witness ==
  /\ pc = "done"
  /\ collects >= 3
  /\ ret = 5
  /\ Cardinality(seen_products) = 5

\* C18: the HeaderMap is set by the header step alone, which runs once and
\* after the grid was located; every collection pass leaves it as it is and
\* locates the grid again, keeping the grid it held when none is found.
C18_HeaderMapResolvedOnce ==
  [][/\ (header_map' # header_map) => (pc = "get_headers" /\ grid # None)
     /\ (pc' = "get_headers") => (pc = "find_grid")
     /\ (collects' = collects + 1) =>
          /\ header_map' = header_map
          /\ grid' = (IF find_grid(dom') = None THEN grid ELSE find_grid(dom'))
          /\ grid' # None]_vars

C18_Witness ==
  /\ Collected
  /\ collects >= 3
  /\ dom = PageEmpty
  /\ grid = TableHandle
  /\ Len(all_rows) >= 4

\* the level of the dedupe key of a row read as rd: "a" Product text, "b"
\* link, "c" whole row
KeyLevel(rd) ==
  IF strip(lower(get(rd.values, F_Product, <<>>))) # <<>> THEN "a"
  ELSE IF rd.product_url # <<>> THEN "b"
  ELSE "c"

\* C15: two rendered rows whose keys are of different levels never have the
\* same key, and after a pass every rendered row that has Product text is
\* represented by a record with that Product text.
C15_LevelsDisjoint ==
  \A r1 \in RowsWithCells :
     LET a == Rendered(r1)
     IN /\ \A r2 \in RowsWithCells :
             KeyLevel(a) # KeyLevel(Rendered(r2)) =>
               dedup_key(a.values, a.product_url)
                 # dedup_key(Rendered(r2).values, Rendered(r2).product_url)
        /\ KeyLevel(a) = "a" =>
             \E i \in DOMAIN all_rows :
                strip(lower(all_rows[i].Product)) = strip(lower(get(a.values, F_Product, <<>>)))

\* C19: the pagination loop of cc_scraper/niap_scraper.py run ends, whatever
\* the page shows: a run that has entered the loop goes on to write its
\* outputs.
C19_CardLoopTerminates == (cpc = "loop") ~> (cpc = "write")

\* what _extract_rows reads from the cells of row number r of document d
ReadRow(d, r) ==
  read_cells(row_cells(data_rows(d)[r]), header_map, 0,
             [values |-> EmptyDict, product_url |-> <<>>, raised |-> FALSE])

\* the dedupe key of row number r of document d
RowKey(d, r) == dedup_key(ReadRow(d, r).values, ReadRow(d, r).product_url)

\* the rows of d that have cells and are the first observed with their key:
\* the key is not among keys, and no row above them in d has it
FirstSeen(d, keys) ==
  {r \in DOMAIN data_rows(d) :
     /\ Len(row_cells(data_rows(d)[r])) > 0
     /\ RowKey(d, r) \notin keys
     /\ \A q \in 1..(r - 1) :
           Len(row_cells(data_rows(d)[q])) > 0 => RowKey(d, q) # RowKey(d, r)}

\* C21: a pass leaves every record already in the list where and as it is,
\* whatever the rows it renders under the same keys, and appends, in the
\* order of the document, one record for each rendered row that is the first
\* observed with its key, built from that row.
C21_FirstOccurrenceWins ==
  [][(dom' # dom \/ all_rows' # all_rows \/ seen_products' # seen_products) =>
       LET first == FirstSeen(dom', seen_products)
           new == SubSeq(all_rows', Len(all_rows) + 1, Len(all_rows'))
       IN /\ IsPrefix(all_rows, all_rows')
          /\ Len(new) = Cardinality(first)
          /\ \A r \in first :
                LET k == Cardinality({q \in first : q <= r})
                IN new[k] = Row(ReadRow(dom', r).values, ReadRow(dom', r).product_url)]_vars

C21_Witness ==
  /\ pc = "extract"
  /\ Len(all_rows) >= 2
  /\ all_rows[1].Product = <<"A","l","p","h","a">>
  /\ all_rows[1].VID = <<"2","0">>
  /\ all_rows[1].Product_URL = <<>>
  /\ Len(data_rows(dom)) = 2
  /\ row_cells(data_rows(dom)[1])[2].link
  /\ norm(row_cells(data_rows(dom)[1])[2].text) = <<"A","l","p","h","a">>
  /\ row_cells(data_rows(dom)[2])[1].text = <<"2","1">>

====
